---- MODULE Spec2Model ----
(***************************************************************************)
(* State-machine model of lab_gen's ConversationService                    *)
(* (src/lab_gen/services/conversation/conversation.py).                    *)
(*                                                                         *)
(* The service keeps no state of its own: every session lives in the       *)
(* history store, one item per (user_id, conversation_id).  The model      *)
(* holds that store, the LANGFUSE_HOST environment switch, what each       *)
(* caller holds (the config returned by start/get), the pipeline           *)
(* invocations in flight and the outcome of the last operation that        *)
(* returned to its caller, with the increments it sent to the metrics      *)
(* provider.                                                               *)
(***************************************************************************)
EXTENDS Integers, Sequences, FiniteSets, TLC

VARIABLES
    store,          \* history store: <<user_id, conversation_id>> -> item
    langfuse_host,  \* whether LANGFUSE_HOST is set in the environment
    started,        \* conversation_id -> metadata given to start (history)
    invoked,        \* conversation_id -> pipeline invocations begun on it (history)
    held,           \* caller -> the config start or get last returned to it
    call,           \* caller -> its pipeline invocation in flight
    thread,         \* thread -> the end or delete_history it is in the middle of
    done,           \* key -> exchanges completed one after another (history)
    dirty,          \* an end, a delete_history or overlapping calls occurred
    ended,          \* key -> whether end succeeded on it, and a turn came after
    accessor,       \* what the accessor's append writes: see add_message
    last            \* outcome of the operation that acted last, once returned

vars == <<store, langfuse_host, started, invoked, held, call, thread,
          done, dirty, ended, accessor, last>>

----------------------------------------------------------------------------
(* Bounds of the model *)

MaxCalls == 3   \* calls of start and of pipelines, over all sessions

Callers == {"p1", "p2"}
Threads == {"t1", "t2"}
Users == {"u1", "u2"}
ConvIds == {"c1", "c2"}
Variants == {"v1", "v2"}
Responses == {"r1"}
PromptIds == {"default", "summary", "missing"}

----------------------------------------------------------------------------
(* Data *)

\* ModelProvider: the three members generate_config names, and one more.
Providers == {"AZURE", "VERTEX", "BEDROCK", "OTHER"}

\* ConversationMetadata(provider, variant, business_user)
ConversationMetadata ==
    [provider : Providers, variant : Variants, business_user : Users]

\* The metadata callers of start and of the pipelines pass.
CallerMetadata ==
    { [provider |-> "AZURE", variant |-> "v1", business_user |-> "u1"],
      [provider |-> "VERTEX", variant |-> "v2", business_user |-> "u2"] }

\* Python's None where a ConversationMetadata is expected.
NoMetadata == [provider |-> "", variant |-> "", business_user |-> ""]

\* meta.model_dump(): the dict of the record's fields.
model_dump(meta) ==
    [provider |-> meta.provider, variant |-> meta.variant,
     business_user |-> meta.business_user]

\* ConversationMetadata.model_validate(d): the record of the dict's fields.
model_validate(d) ==
    [provider |-> d.provider, variant |-> d.variant,
     business_user |-> d.business_user]

SYSTEM_MESSAGE ==
    [type |-> "system",
     content |-> "You are a helpful AI bot, gifted at answering questions."]

HumanMessage(text) == [type |-> "human", content |-> text]
AIMessage(text) == [type |-> "ai", content |-> text]

Keys == Users \X ConvIds

\* A store item that does not exist reads as no messages and no metadata.
NoItem == [messages |-> <<>>, metadata |-> NoMetadata]

\* self.prompts of the service: the templates it was constructed with.
prompts == {"summary"}

----------------------------------------------------------------------------
(* Collaborators of the service *)

\* get_llm(provider, variant): the backend handle, a function of the two.
get_llm(provider, variant) == [provider |-> provider, variant |-> variant]

\* CosmosDBChatMessageHistory(client, session_id, user_id, metadata): a
\* handle on the item of (user_id, session_id) with the messages stored
\* there; it carries the metadata supplied, else the metadata stored.
CosmosDBChatMessageHistory(st, session_id, user_id, metadata) ==
    LET item == st[<<user_id, session_id>>]
    IN  [session_id |-> session_id,
         user_id |-> user_id,
         messages |-> item.messages,
         metadata |-> IF metadata # NoMetadata THEN metadata
                      ELSE item.metadata]

\* The accessors the store can have. Its code is not in the repository and
\* the spec leaves open what append does to turns written since the handle
\* was resolved ("no optimistic-concurrency", "does not protect against
\* that race"): "append" adds the turn to the log stored at the time of the
\* write, "rewrite" writes back the list the handle read, with the turn
\* added. The process has one of them, from its start to its end.
Accessors == {"append", "rewrite"}

\* The list a handle holds once it has added m: what it read when it was
\* resolved and the turns it added itself.
added(h, m) == [h EXCEPT !.messages = Append(@, m)]

\* handle.add_message(m): one more turn at the end of the log, which is the
\* stored log or the handle's own list, as the accessor is; the item's
\* metadata is written when the item is created, and kept after.
add_message(st, h, m) ==
    LET k == <<h.user_id, h.session_id>>
        log == IF accessor = "rewrite" THEN h.messages ELSE st[k].messages
    IN  [st EXCEPT ![k] =
            [messages |-> Append(log, m),
             metadata |-> IF st[k].metadata # NoMetadata
                          THEN st[k].metadata ELSE h.metadata]]

\* handle.clear(): the item is removed, turns and metadata.
clear(st, h) == [st EXCEPT ![<<h.user_id, h.session_id>>] = NoItem]

\* The sequence s without its element at zero-based position i; as in the
\* list of the handle, a negative i counts back from the end (-1 is the
\* last element).
RemoveAt(s, i) ==
    LET pos == IF i < 0 THEN Len(s) + i ELSE i
    IN  [j \in 1..(Len(s) - 1) |-> IF j <= pos THEN s[j] ELSE s[j + 1]]

\* handle.delete(index) on an index the log has: that turn is removed.
delete(st, h, index) ==
    LET k == <<h.user_id, h.session_id>>
    IN  [st EXCEPT ![k].messages = RemoveAt(st[k].messages, index)]

\* handle.delete(index) raises when the log has no such position: at the
\* length or beyond it, or further back from the end than its first turn.
delete_raises(st, h, index) ==
    LET n == Len(st[<<h.user_id, h.session_id>>].messages)
    IN  index >= n \/ index < -n

----------------------------------------------------------------------------
(* ConversationService *)

NoLlm == [provider |-> "", variant |-> ""]

NoConfig ==
    [callbacks |-> <<>>,
     configurable |-> [user_id |-> "", conversation_id |-> "",
                       metadata |-> NoMetadata]]

NoChain == [llm |-> NoLlm, prompt |-> <<>>, prompt_id |-> ""]

\* An observer attached to a call: its class, the llm it was built on and,
\* for the trace handler, the ids stamped on it.
Callback(cls, llm, user_id, session_id) ==
    [cls |-> cls, llm |-> llm, user_id |-> user_id, session_id |-> session_id]

\* create_chain(llm, prompt): RunnableWithMessageHistory over
\* prompt | llm | StrOutputParser(), its history resolved by
\* get_message_history from the configurable fields conversation_id,
\* user_id and metadata; prompt_id is what with_config adds in start.
create_chain(llm, prompt) == [llm |-> llm, prompt |-> prompt, prompt_id |-> ""]

\* The match, were the BEDROCK case missing from it.
blocked_content_counter_no_bedrock(meta, llm) ==
    CASE meta.provider = "AZURE" ->
            Callback("AzureBlockedContentTracker", llm, "", "")
      [] meta.provider = "VERTEX" ->
            Callback("VertexBlockedContentTracker", llm, "", "")
      [] OTHER ->
            Callback("BlockedContentTracker", llm, "", "")

\* The match on meta.provider in generate_config.
blocked_content_counter(meta, llm) ==
    CASE meta.provider = "AZURE" ->
            Callback("AzureBlockedContentTracker", llm, "", "")
      [] meta.provider = "VERTEX" ->
            Callback("VertexBlockedContentTracker", llm, "", "")
      [] meta.provider = "BEDROCK" ->
            Callback("BedrockBlockedContentTracker", llm, "", "")
      [] OTHER ->
            Callback("BlockedContentTracker", llm, "", "")

\* generate_config, were the trace handler attached whatever the environment.
generate_config_always_traces(meta, conversation_id, llm, env) ==
    LET metrics_counter == Callback("LLMMetricsCounter", llm, "", "")
        callbacks == <<metrics_counter, blocked_content_counter(meta, llm)>>
        langfuse_handler ==
            Callback("CallbackHandler", NoLlm, meta.business_user, conversation_id)
    IN  [callbacks |-> Append(callbacks, langfuse_handler),
         configurable |-> [user_id |-> meta.business_user,
                           conversation_id |-> conversation_id,
                           metadata |-> model_dump(meta)]]

\* generate_config(meta, conversation_id, llm); env is os.getenv("LANGFUSE_HOST").
generate_config(meta, conversation_id, llm, env) ==
    LET metrics_counter == Callback("LLMMetricsCounter", llm, "", "")
        callbacks == <<metrics_counter, blocked_content_counter(meta, llm)>>
        langfuse_handler ==
            Callback("CallbackHandler", NoLlm, meta.business_user, conversation_id)
    IN  [callbacks |-> IF env THEN Append(callbacks, langfuse_handler)
                       ELSE callbacks,
         configurable |-> [user_id |-> meta.business_user,
                           conversation_id |-> conversation_id,
                           metadata |-> model_dump(meta)]]

\* get_prompt(prompt_id): self.prompts[prompt_id], a KeyError when absent.
get_prompt_raises(prompt_id) == prompt_id \notin prompts

get_prompt(prompt_id) == [type |-> "human", content |-> prompt_id]

\* start, were the template looked up for the "default" sentinel too.
start_looks_up_default(st, meta, prompt_id, conversation_id, env) ==
    LET llm == get_llm(meta.provider, meta.variant)
        messages == <<SYSTEM_MESSAGE, get_prompt(prompt_id)>>
        chain_with_history ==
            [create_chain(llm, messages) EXCEPT !.prompt_id = prompt_id]
    IN  IF get_prompt_raises(prompt_id)
        THEN [status |-> "KeyError", error |-> prompt_id,
              config |-> NoConfig, conversation_id |-> "",
              chain |-> NoChain, metric |-> <<>>, store |-> st]
        ELSE [status |-> "ok", error |-> "",
              config |-> generate_config(meta, conversation_id, llm, env),
              conversation_id |-> conversation_id,
              chain |-> chain_with_history,
              metric |-> <<model_dump(meta)>>, store |-> st]

\* start, were it to seed the new session's log with the system message.
start_adds_system(st, meta, prompt_id, conversation_id, env) ==
    LET llm == get_llm(meta.provider, meta.variant)
        hist == CosmosDBChatMessageHistory(st, conversation_id,
                                           meta.business_user, meta)
    IN  IF prompt_id # "default" /\ get_prompt_raises(prompt_id)
        THEN [status |-> "KeyError", error |-> prompt_id,
              config |-> NoConfig, conversation_id |-> "",
              chain |-> NoChain, metric |-> <<>>, store |-> st]
        ELSE [status |-> "ok", error |-> "",
              config |-> generate_config(meta, conversation_id, llm, env),
              conversation_id |-> conversation_id,
              chain |-> NoChain,
              metric |-> <<model_dump(meta)>>,
              store |-> add_message(st, hist, SYSTEM_MESSAGE)]

\* start(meta, prompt_id), with the uuid it draws and the environment it
\* reads.  metric is the sequence of increments it makes on the counter,
\* store the store it leaves: it resolves no history and writes nothing.
start(st, meta, prompt_id, conversation_id, env) ==
    LET llm == get_llm(meta.provider, meta.variant)
        messages ==
            IF prompt_id # "default"
            THEN <<SYSTEM_MESSAGE, get_prompt(prompt_id)>>
            ELSE <<SYSTEM_MESSAGE, [type |-> "human", content |-> "{input}"]>>
        chain_with_history ==
            [create_chain(llm, messages) EXCEPT !.prompt_id = prompt_id]
    IN  IF prompt_id # "default" /\ get_prompt_raises(prompt_id)
        THEN [status |-> "KeyError", error |-> prompt_id,
              config |-> NoConfig, conversation_id |-> "",
              chain |-> NoChain, metric |-> <<>>, store |-> st]
        ELSE [status |-> "ok", error |-> "",
              config |-> generate_config(meta, conversation_id, llm, env),
              conversation_id |-> conversation_id,
              chain |-> chain_with_history,
              metric |-> <<model_dump(meta)>>, store |-> st]

\* get_message_history, were the log keyed by the user alone.
get_message_history_by_user(st, user_id, conversation_id, metadata) ==
    LET meta == IF metadata = NoMetadata THEN NoMetadata
                ELSE model_validate(metadata)
    IN  CosmosDBChatMessageHistory(st, "c1", user_id, meta)

\* get_message_history(user_id=, conversation_id=, metadata=None)
get_message_history(st, user_id, conversation_id, metadata) ==
    LET meta == IF metadata = NoMetadata THEN NoMetadata
                ELSE model_validate(metadata)
    IN  CosmosDBChatMessageHistory(st, conversation_id, user_id, meta)

\* get, were the counter incremented before the metadata is tested.
get_counts_first(st, conversation_id, user_id, env) ==
    LET hist == get_message_history(st, user_id, conversation_id, NoMetadata)
        meta == hist.metadata
        llm == get_llm(meta.provider, meta.variant)
        prompt == << [type |-> "placeholder", content |-> "history"],
                     [type |-> "human", content |-> "{input}"] >>
    IN  IF hist.metadata # NoMetadata
        THEN [status |-> "ok", error |-> "",
              config |-> generate_config(meta, conversation_id, llm, env),
              chain |-> create_chain(llm, prompt),
              metric |-> <<model_dump(meta)>>]
        ELSE [status |-> "NoConversationError", error |-> conversation_id,
              config |-> NoConfig, chain |-> NoChain,
              metric |-> <<model_dump(meta)>>]

\* get, were it to build the backend for a provider of its own.
get_fixed_llm(st, conversation_id, user_id, env) ==
    LET hist == CosmosDBChatMessageHistory(st, conversation_id, user_id, NoMetadata)
        meta == hist.metadata
        llm == get_llm("AZURE", meta.variant)
    IN  IF hist.metadata # NoMetadata
        THEN [status |-> "ok", error |-> "",
              config |-> generate_config(meta, conversation_id, llm, env),
              chain |-> [llm |-> llm, prompt |-> <<>>, prompt_id |-> ""],
              metric |-> <<model_dump(meta)>>]
        ELSE [status |-> "NoConversationError", error |-> conversation_id,
              config |-> NoConfig, chain |-> NoChain, metric |-> <<>>]

\* get(conversation_id, user_id)
get(st, conversation_id, user_id, env) ==
    LET hist == get_message_history(st, user_id, conversation_id, NoMetadata)
        meta == hist.metadata
        llm == get_llm(meta.provider, meta.variant)
        prompt == << [type |-> "placeholder", content |-> "history"],
                     [type |-> "human", content |-> "{input}"] >>
    IN  IF hist.metadata # NoMetadata
        THEN [status |-> "ok", error |-> "",
              config |-> generate_config(meta, conversation_id, llm, env),
              chain |-> create_chain(llm, prompt),
              metric |-> <<model_dump(meta)>>]
        ELSE [status |-> "NoConversationError", error |-> conversation_id,
              config |-> NoConfig, chain |-> NoChain, metric |-> <<>>]

\* _message_to_dict(message)
message_to_dict(message) == [role |-> message.type, content |-> message.content]

\* history, were the session's existence read off its metadata.
history_by_metadata(st, user_id, conversation_id) ==
    LET hist == get_message_history(st, user_id, conversation_id, NoMetadata)
    IN  IF hist.metadata # NoMetadata
        THEN [status |-> "ok", error |-> "",
              messages |-> [i \in 1..Len(hist.messages) |->
                                message_to_dict(hist.messages[i])]]
        ELSE [status |-> "NoConversationError", error |-> conversation_id,
              messages |-> <<>>]

\* history, were it to return an empty list for an empty log.
history_returns_empty(st, user_id, conversation_id) ==
    LET hist == CosmosDBChatMessageHistory(st, conversation_id, user_id, NoMetadata)
    IN  [status |-> "ok", error |-> "",
         messages |-> [i \in 1..Len(hist.messages) |->
                           message_to_dict(hist.messages[i])]]

\* history(user_id, conversation_id)
history(st, user_id, conversation_id) ==
    LET hist == get_message_history(st, user_id, conversation_id, NoMetadata)
    IN  IF hist.messages # <<>>
        THEN [status |-> "ok", error |-> "",
              messages |-> [i \in 1..Len(hist.messages) |->
                                message_to_dict(hist.messages[i])]]
        ELSE [status |-> "NoConversationError", error |-> conversation_id,
              messages |-> <<>>]

\* end, were the log cleared before it is tested.
end_clears_first(hist, st, conversation_id) ==
    IF hist.messages # <<>>
    THEN [status |-> "ok", error |-> "", store |-> clear(st, hist)]
    ELSE [status |-> "NoConversationError", error |-> conversation_id,
          store |-> clear(st, hist)]

\* end, were it to drop the turns and keep the item.
end_keeps_item(hist, st, conversation_id) ==
    IF hist.messages # <<>>
    THEN [status |-> "ok", error |-> "",
          store |-> [st EXCEPT ![<<hist.user_id, hist.session_id>>].messages
                                   = <<>>]]
    ELSE [status |-> "NoConversationError", error |-> conversation_id,
          store |-> st]

\* end(user_id, conversation_id), from the test of the handle on: hist is
\* the handle get_message_history returned, with the messages read when it
\* was built, st the store at the time clear() is called; store is the
\* store it leaves.
end(hist, st, conversation_id) ==
    IF hist.messages # <<>>
    THEN [status |-> "ok", error |-> "", store |-> clear(st, hist)]
    ELSE [status |-> "NoConversationError", error |-> conversation_id,
          store |-> st]

\* delete_history, were it to report a missing index as a missing session.
delete_history_folds_index(hist, st, conversation_id, num_entries) ==
    IF Len(hist.messages) > 0 /\ ~delete_raises(st, hist, num_entries)
    THEN [status |-> "ok", error |-> "",
          store |-> delete(st, hist, num_entries)]
    ELSE [status |-> "NoConversationError", error |-> conversation_id,
          store |-> st]

\* delete_history, were it to count positions from the end of the log.
delete_history_from_end(hist, st, conversation_id, num_entries) ==
    IF Len(hist.messages) > 0
    THEN IF delete_raises(st, hist, num_entries)
         THEN [status |-> "IndexError", error |-> "", store |-> st]
         ELSE [status |-> "ok", error |-> "",
               store |-> delete(st, hist,
                                Len(st[<<hist.user_id, hist.session_id>>].messages)
                                   - 1 - num_entries)]
    ELSE [status |-> "NoConversationError", error |-> conversation_id,
          store |-> st]

\* delete_history, were it to clear the item once its last turn is deleted.
delete_history_clears(hist, st, conversation_id, num_entries) ==
    IF Len(hist.messages) > 0
    THEN IF delete_raises(st, hist, num_entries)
         THEN [status |-> "IndexError", error |-> "", store |-> st]
         ELSE [status |-> "ok", error |-> "",
               store |-> IF Len(st[<<hist.user_id, hist.session_id>>].messages) = 1
                         THEN clear(st, hist)
                         ELSE delete(st, hist, num_entries)]
    ELSE [status |-> "NoConversationError", error |-> conversation_id,
          store |-> st]

\* delete_history(user_id, conversation_id, num_entries), from the test of
\* the handle on: hist is the handle get_message_history returned, with the
\* messages read when it was built, st the store at the time
\* delete(num_entries) is called.
delete_history(hist, st, conversation_id, num_entries) ==
    IF Len(hist.messages) > 0
    THEN IF delete_raises(st, hist, num_entries)
         THEN [status |-> "IndexError", error |-> "", store |-> st]
         ELSE [status |-> "ok", error |-> "",
               store |-> delete(st, hist, num_entries)]
    ELSE [status |-> "NoConversationError", error |-> conversation_id,
          store |-> st]

\* end(user_id, conversation_id) when no other thread runs between the
\* building of its handle and its clear().
end_alone(st, user_id, conversation_id) ==
    end(get_message_history(st, user_id, conversation_id, NoMetadata),
        st, conversation_id)

\* delete_history(user_id, conversation_id, num_entries) when no other
\* thread runs between the building of its handle and its delete().
delete_history_alone(st, user_id, conversation_id, num_entries) ==
    delete_history(get_message_history(st, user_id, conversation_id,
                                       NoMetadata),
                   st, conversation_id, num_entries)

----------------------------------------------------------------------------
(* The pipeline returned by create_chain, as RunnableWithMessageHistory
   runs it: it resolves the history from the configurable fields, calls
   prompt | llm | StrOutputParser() and, when that succeeded, adds the
   input message and the output message to the history, one at a time. *)

\* get_session_history=self.get_message_history, called with the three
\* configurable fields of the config the chain is invoked with.
session_history(st, configurable) ==
    get_message_history(st, configurable.user_id,
                        configurable.conversation_id, configurable.metadata)

\* The exchange, were the rendered prompt persisted instead of the input.
exchange_messages_with_prompt(input, output) ==
    <<SYSTEM_MESSAGE, HumanMessage(input), AIMessage(output)>>

\* The exchange, were the output persisted before the input.
exchange_messages_output_first(input, output) ==
    <<AIMessage(output), HumanMessage(input)>>

\* input_messages_key="input", history_messages_key="history": the turns
\* persisted for one exchange are the input, as a human message, and the
\* parsed output, as an ai message.
exchange_messages(input, output) == <<HumanMessage(input), AIMessage(output)>>

NoHandle ==
    [session_id |-> "", user_id |-> "", messages |-> <<>>,
     metadata |-> NoMetadata]

NoCall ==
    [pc |-> "idle", handle |-> NoHandle, input |-> "", output |-> "",
     pending |-> <<>>]

\* A thread that is in the middle of no end and no delete_history.
NoThread == [op |-> "none", hist |-> NoHandle, num_entries |-> 0]

HandleKey(h) == <<h.user_id, h.session_id>>

\* The callers with an invocation in flight on key k.
InFlight(k) ==
    {q \in Callers : call[q].pc # "idle" /\ HandleKey(call[q].handle) = k}

----------------------------------------------------------------------------
(* Outcome of an operation, as its caller sees it *)

\* metric: the dimensions of the COUNT_CHAT_REQUESTS increments the
\* operation sent to the metrics provider, one entry per increment.
\* status is "pending" for an end or delete_history that has built its
\* handle and has not returned yet.
Outcome(op, user_id, conversation_id, status, error, metric) ==
    [op |-> op, user_id |-> user_id, conversation_id |-> conversation_id,
     status |-> status, error |-> error, metric |-> metric]

NoOutcome == Outcome("none", "", "", "", "", <<>>)

----------------------------------------------------------------------------
(* Initial state: an empty store, nothing started *)

Init ==
    /\ store = [k \in Keys |-> NoItem]
    /\ langfuse_host = FALSE
    /\ started = [c \in ConvIds |-> NoMetadata]
    /\ invoked = [c \in ConvIds |-> 0]
    /\ held = [p \in Callers |-> NoConfig]
    /\ call = [p \in Callers |-> NoCall]
    /\ thread = [t \in Threads |-> NoThread]
    /\ done = [k \in Keys |-> <<>>]
    /\ dirty = FALSE
    /\ ended = [k \in Keys |-> "no"]
    /\ accessor \in Accessors
    /\ last = NoOutcome

----------------------------------------------------------------------------
(* Operations *)

\* The sum of f over S.
RECURSIVE Sum(_, _)
Sum(f, S) ==
    IF S = {} THEN 0
    ELSE LET x == CHOOSE y \in S : TRUE IN f[x] + Sum(f, S \ {x})

\* The calls of start that succeeded and of pipelines, so far.
Calls ==
    Sum(invoked, ConvIds) + Cardinality({c \in ConvIds : started[c] # NoMetadata})

\* uuid4 draws an id never drawn before; which one is immaterial, so the
\* model draws them in a fixed order.
NextId == IF started["c1"] = NoMetadata THEN "c1" ELSE "c2"

\* Every invocation is given an input of its own, so that the turns of
\* different invocations can be told apart.
NextInput == "m" \o ToString(Sum(invoked, ConvIds) + 1)

\* The record of ends after a turn was added to key k.
Revived(k) == [ended EXCEPT ![k] = IF @ = "no" THEN "no" ELSE "revived"]

\* A caller starts a conversation.
Start(p, meta, prompt_id) ==
    /\ call[p].pc = "idle"
    /\ started[NextId] = NoMetadata
    /\ LET r == start(store, meta, prompt_id, NextId, langfuse_host)
       IN  /\ store' = r.store
           /\ IF r.status = "ok"
              THEN /\ started' = [started EXCEPT ![r.conversation_id] = meta]
                   /\ held' = [held EXCEPT ![p] = r.config]
              ELSE UNCHANGED <<started, held>>
           /\ last' = Outcome("start", "", r.conversation_id, r.status,
                              r.error, r.metric)
    /\ UNCHANGED accessor
    /\ UNCHANGED <<thread, langfuse_host, invoked, call, done, dirty, ended>>

\* A caller resumes a conversation.
Get(p, conversation_id, user_id) ==
    /\ call[p].pc = "idle"
    /\ LET r == get(store, conversation_id, user_id, langfuse_host)
       IN  /\ IF r.status = "ok"
              THEN held' = [held EXCEPT ![p] = r.config]
              ELSE UNCHANGED held
           /\ last' = Outcome("get", user_id, conversation_id, r.status,
                              r.error, r.metric)
    /\ UNCHANGED accessor
    /\ UNCHANGED <<thread, store, langfuse_host, started, invoked, call, done,
                   dirty, ended>>

History(user_id, conversation_id) ==
    /\ LET r == history(store, user_id, conversation_id)
       IN  last' = Outcome("history", user_id, conversation_id, r.status,
                           r.error, <<>>)
    /\ UNCHANGED accessor
    /\ UNCHANGED <<thread, store, langfuse_host, started, invoked, held, call,
                   done, dirty, ended>>

\* A thread calls end: it builds the handle, which reads the log, and
\* tests the messages it read; on an empty log it raises, else it goes on
\* to clear().
End(t, user_id, conversation_id) ==
    /\ thread[t] = NoThread
    /\ LET hist == get_message_history(store, user_id, conversation_id,
                                       NoMetadata)
           r == end(hist, store, conversation_id)
       IN  IF hist.messages # <<>>
           THEN /\ thread' = [thread EXCEPT ![t] =
                       [op |-> "end", hist |-> hist, num_entries |-> 0]]
                /\ last' = Outcome("end", user_id, conversation_id,
                                   "pending", "", <<>>)
                /\ UNCHANGED store
           ELSE /\ store' = r.store
                /\ last' = Outcome("end", user_id, conversation_id, r.status,
                                   r.error, <<>>)
                /\ UNCHANGED thread
    /\ UNCHANGED accessor
    /\ UNCHANGED <<langfuse_host, started, invoked, held, call, done, dirty,
                   ended>>

\* The thread's end calls clear() on its handle and returns.
EndClear(t) ==
    /\ thread[t].op = "end"
    /\ LET hist == thread[t].hist
           k == HandleKey(hist)
           r == end(hist, store, hist.session_id)
       IN  /\ store' = r.store
           /\ IF r.status = "ok"
              THEN /\ dirty' = TRUE
                   /\ done' = [x \in Keys |-> <<>>]
                   /\ ended' = [ended EXCEPT ![k] = "ended"]
              ELSE UNCHANGED <<dirty, done, ended>>
           /\ last' = Outcome("end", hist.user_id, hist.session_id, r.status,
                              r.error, <<>>)
    /\ thread' = [thread EXCEPT ![t] = NoThread]
    /\ UNCHANGED accessor
    /\ UNCHANGED <<langfuse_host, started, invoked, held, call>>

\* A thread calls delete_history: it builds the handle, which reads the
\* log, and tests the length of the messages it read; on an empty log it
\* raises, else it goes on to delete(num_entries).
DeleteHistory(t, user_id, conversation_id, num_entries) ==
    /\ thread[t] = NoThread
    /\ LET hist == get_message_history(store, user_id, conversation_id,
                                       NoMetadata)
           r == delete_history(hist, store, conversation_id, num_entries)
       IN  IF Len(hist.messages) > 0
           THEN /\ thread' = [thread EXCEPT ![t] =
                       [op |-> "delete_history", hist |-> hist,
                        num_entries |-> num_entries]]
                /\ last' = Outcome("delete_history", user_id, conversation_id,
                                   "pending", "", <<>>)
                /\ UNCHANGED store
           ELSE /\ store' = r.store
                /\ last' = Outcome("delete_history", user_id, conversation_id,
                                   r.status, r.error, <<>>)
                /\ UNCHANGED thread
    /\ UNCHANGED accessor
    /\ UNCHANGED <<langfuse_host, started, invoked, held, call, done, dirty,
                   ended>>

\* The thread's delete_history calls delete(num_entries) on its handle and
\* returns, or raises what delete raises.
DeleteHistoryDelete(t) ==
    /\ thread[t].op = "delete_history"
    /\ LET hist == thread[t].hist
           r == delete_history(hist, store, hist.session_id,
                               thread[t].num_entries)
       IN  /\ store' = r.store
           /\ IF r.status = "ok"
              THEN /\ dirty' = TRUE
                   /\ done' = [x \in Keys |-> <<>>]
              ELSE UNCHANGED <<dirty, done>>
           /\ last' = Outcome("delete_history", hist.user_id, hist.session_id,
                              r.status, r.error, <<>>)
    /\ thread' = [thread EXCEPT ![t] = NoThread]
    /\ UNCHANGED accessor
    /\ UNCHANGED <<langfuse_host, started, invoked, held, call, ended>>

\* A caller invokes the chain it was given with the config it was given
\* (the chains differ in their prompt only, which no stored turn depends
\* on), or with that config and a metadata of its own choosing.
InvokeBegin(p, metadata) ==
    /\ call[p].pc = "idle"
    /\ held[p] # NoConfig
    /\ LET configurable == [held[p].configurable EXCEPT !.metadata = metadata]
           hist == session_history(store, configurable)
           k == HandleKey(hist)
       IN  /\ call' = [call EXCEPT ![p] =
                  [pc |-> "running",
                   handle |-> hist,
                   input |-> NextInput, output |-> "", pending |-> <<>>]]
           /\ invoked' = [invoked EXCEPT ![configurable.conversation_id] = @ + 1]
           /\ IF InFlight(k) # {}
              THEN /\ dirty' = TRUE
                   /\ done' = [x \in Keys |-> <<>>]
              ELSE UNCHANGED <<dirty, done>>
    /\ UNCHANGED accessor
    /\ UNCHANGED <<thread, store, langfuse_host, started, held, ended, last>>

\* A failing call, were the input added to the history before the call.
InvokeFail_keeps_input(p) ==
    /\ call[p].pc = "running"
    /\ store' = add_message(store, call[p].handle, HumanMessage(call[p].input))
    /\ call' = [call EXCEPT ![p] = NoCall]
    /\ last' = [op |-> "invoke", user_id |-> call[p].handle.user_id,
                conversation_id |-> call[p].handle.session_id,
                status |-> "BackendError", error |-> "", metric |-> <<>>]
    /\ UNCHANGED accessor
    /\ UNCHANGED <<thread, langfuse_host, started, invoked, held, done, dirty,
                   ended>>

\* The backend call fails: the error goes to the caller, nothing is added.
InvokeFail(p) ==
    /\ call[p].pc = "running"
    /\ call' = [call EXCEPT ![p] = NoCall]
    /\ last' = Outcome("invoke", call[p].handle.user_id,
                       call[p].handle.session_id, "BackendError", "", <<>>)
    /\ UNCHANGED accessor
    /\ UNCHANGED <<thread, store, langfuse_host, started, invoked, held, done,
                   dirty, ended>>

\* The backend call returns output: the first message of the exchange is
\* added to the history.
InvokeReturn(p, output) ==
    /\ call[p].pc = "running"
    /\ LET msgs == exchange_messages(call[p].input, output)
       IN  /\ store' = add_message(store, call[p].handle, Head(msgs))
           /\ call' = [call EXCEPT ![p].pc = "adding",
                                   ![p].handle = added(@, Head(msgs)),
                                   ![p].output = output,
                                   ![p].pending = Tail(msgs)]
           /\ ended' = Revived(HandleKey(call[p].handle))
    /\ UNCHANGED accessor
    /\ UNCHANGED <<thread, langfuse_host, started, invoked, held, done, dirty,
                   last>>

\* The next message of the exchange is added; after the last one the
\* invocation returns the output.
InvokeAdd(p) ==
    /\ call[p].pc = "adding"
    /\ LET c == call[p]
           k == HandleKey(c.handle)
           rest == Tail(c.pending)
       IN  /\ store' = add_message(store, c.handle, Head(c.pending))
           /\ ended' = Revived(k)
           /\ IF rest # <<>>
              THEN /\ call' = [call EXCEPT
                                 ![p].handle = added(@, Head(c.pending)),
                                 ![p].pending = rest]
                   /\ UNCHANGED <<done, last>>
              ELSE /\ call' = [call EXCEPT ![p] = NoCall]
                   /\ done' = [done EXCEPT ![k] =
                          IF dirty THEN <<>>
                          ELSE Append(@, <<c.input, c.output>>)]
                   /\ last' = Outcome("invoke", c.handle.user_id,
                                      c.handle.session_id, "ok", "", <<>>)
    /\ UNCHANGED accessor
    /\ UNCHANGED <<thread, langfuse_host, started, invoked, held, dirty>>

\* The metadata a caller starts its sessions with.
MetadataOf(p) ==
    IF p = "p1"
    THEN [provider |-> "AZURE", variant |-> "v1", business_user |-> "u1"]
    ELSE [provider |-> "VERTEX", variant |-> "v2", business_user |-> "u2"]

\* The business user whose sessions caller p starts.
UserOf(p) == MetadataOf(p).business_user

\* The service with one caller and two threads: the caller starts sessions,
\* resumes them and invokes the pipeline with the config it was given, one
\* invocation at a time; history is read; each thread ends sessions and
\* deletes turns, its two accessor calls apart. Every operation arrives at
\* any moment, also while an invocation is in flight and while a thread is
\* between its two accessor calls. The ids are those of the caller's user,
\* started or not.
Next ==
    \/ \E prompt_id \in {"default", "missing"} :
          Calls < MaxCalls /\ Start("p1", MetadataOf("p1"), prompt_id)
    \/ \E c \in ConvIds : Get("p1", c, UserOf("p1"))
    \/ \E c \in ConvIds : History(UserOf("p1"), c)
    \/ \E t \in Threads, c \in ConvIds : End(t, UserOf("p1"), c)
    \/ \E t \in Threads : EndClear(t)
    \/ \E t \in Threads, c \in ConvIds :
          \E i \in 0..Len(store[<<UserOf("p1"), c>>].messages) :
             DeleteHistory(t, UserOf("p1"), c, i)
    \/ \E t \in Threads : DeleteHistoryDelete(t)
    \/ Calls < MaxCalls /\ InvokeBegin("p1", held["p1"].configurable.metadata)
    \/ InvokeFail("p1")
    \/ \E output \in Responses : InvokeReturn("p1", output)
    \/ InvokeAdd("p1")

Spec == Init /\ [][Next]_vars

\* The calls that remove nothing, with every input: one caller starts
\* sessions with either metadata and any prompt id, resumes any id as any
\* user, and invokes its pipeline with the metadata it was given or another,
\* while history is read, also in the middle of an invocation.
NextCalls ==
    \/ \E meta \in CallerMetadata, prompt_id \in PromptIds :
          Calls < MaxCalls /\ Start("p1", meta, prompt_id)
    \/ \E c \in ConvIds, u \in Users : Get("p1", c, u)
    \/ \E u \in Users, c \in ConvIds : History(u, c)
    \/ \E metadata \in CallerMetadata \cup {held["p1"].configurable.metadata} :
          Calls < MaxCalls /\ InvokeBegin("p1", metadata)
    \/ InvokeFail("p1")
    \/ \E output \in Responses : InvokeReturn("p1", output)
    \/ InvokeAdd("p1")

SpecCalls == Init /\ [][NextCalls]_vars

\* The environment of the process changes: LANGFUSE_HOST is set or unset.
Setenv(value) ==
    /\ langfuse_host # value
    /\ langfuse_host' = value
    /\ UNCHANGED accessor
    /\ UNCHANGED <<store, started, invoked, held, call, thread, done, dirty,
                   ended, last>>

\* start and get with every metadata and prompt id, in either environment:
\* one caller starts sessions with any ConversationMetadata, invokes the
\* pipeline with the config it was given and resumes what is stored.
NextService ==
    \/ \E meta \in ConversationMetadata, prompt_id \in PromptIds :
          Calls < MaxCalls /\ Start("p1", meta, prompt_id)
    \/ \E c \in ConvIds, u \in Users : Get("p1", c, u)
    \/ Calls < MaxCalls /\ InvokeBegin("p1", held["p1"].configurable.metadata)
    \/ \E output \in Responses : InvokeReturn("p1", output)
    \/ InvokeAdd("p1")
    \/ \E value \in BOOLEAN : Setenv(value)

SpecService == Init /\ [][NextService]_vars

\* Two callers at once: each starts sessions and invokes its pipeline with
\* either metadata, while the other's invocation is in flight; a thread ends
\* sessions or deletes turns of them, its two accessor calls apart, at any
\* moment.
NextConcurrent ==
    \/ \E p \in Callers :
          Calls < MaxCalls + 1 /\ Start(p, MetadataOf(p), "default")
    \/ \E k \in Keys : End("t1", k[1], k[2])
    \/ EndClear("t1")
    \/ \E k \in Keys :
          \E i \in 0..Len(store[k].messages) :
             DeleteHistory("t1", k[1], k[2], i)
    \/ DeleteHistoryDelete("t1")
    \/ \E p \in Callers, metadata \in CallerMetadata :
          Calls < MaxCalls + 1 /\ InvokeBegin(p, metadata)
    \/ \E p \in Callers : InvokeFail(p)
    \/ \E p \in Callers, output \in Responses : InvokeReturn(p, output)
    \/ \E p \in Callers : InvokeAdd(p)

SpecConcurrent == Init /\ [][NextConcurrent]_vars

\* Two callers at once and nothing that removes a turn or fails: a caller
\* resumes the session the other started and their invocations overlap.
NextSameSession ==
    \/ \E p \in Callers :
          Calls < MaxCalls + 1 /\ Start(p, MetadataOf(p), "default")
    \/ \E p \in Callers, k \in Keys : Get(p, k[2], k[1])
    \/ \E p \in Callers :
          Calls < MaxCalls + 1 /\ InvokeBegin(p, held[p].configurable.metadata)
    \/ \E p \in Callers, output \in Responses : InvokeReturn(p, output)
    \/ \E p \in Callers : InvokeAdd(p)

SpecSameSession == Init /\ [][NextSameSession]_vars

----------------------------------------------------------------------------
(* Properties *)

NotFound == "NoConversationError"

\* The largest index a log can have a turn at, and one more.
MaxIndex == 2 * MaxCalls

\* get, history, end and delete_history, with any index, all fail on
\* (user_id, conversation_id) with session-not-found carrying the id.
AllNotFound(st, user_id, conversation_id) ==
    /\ LET r == get(st, conversation_id, user_id, langfuse_host)
       IN  r.status = NotFound /\ r.error = conversation_id
    /\ LET r == history(st, user_id, conversation_id)
       IN  r.status = NotFound /\ r.error = conversation_id
    /\ LET r == end_alone(st, user_id, conversation_id)
       IN  r.status = NotFound /\ r.error = conversation_id
    /\ \A i \in 0..MaxIndex :
          LET r == delete_history_alone(st, user_id, conversation_id, i)
          IN  r.status = NotFound /\ r.error = conversation_id

LastKey == <<last.user_id, last.conversation_id>>

\* The item of key k is stored and has no turn left: its turns were
\* deleted one by one (end removes the item, its metadata included).
Emptied(k) == store[k].metadata # NoMetadata /\ store[k].messages = <<>>

\* C1 (as claimed): for a session that start has returned and no pipeline
\* was invoked on yet, get succeeds for the session's business user and its
\* config carries the provider and variant given to start.
C1_GetRightAfterStart ==
    \A c \in ConvIds :
        (started[c] # NoMetadata /\ invoked[c] = 0) =>
            LET r == get(store, c, started[c].business_user, langfuse_host)
            IN  /\ r.status = "ok"
                /\ r.config.configurable.metadata.provider = started[c].provider
                /\ r.config.configurable.metadata.variant = started[c].variant

\* C2: on a conversation id that start never returned, get, history, end
\* and delete_history (with any index) fail with session-not-found carrying
\* that id, for every user; so did the last such operation made.
C2_NeverStartedNotFound ==
    /\ \A u \in Users, c \in ConvIds :
          started[c] = NoMetadata => AllNotFound(store, u, c)
    /\ (/\ last.op \in {"get", "history", "end", "delete_history"}
        /\ started[last.conversation_id] = NoMetadata)
       => (last.status = NotFound /\ last.error = last.conversation_id)

C2_Witness ==
    /\ last.op = "delete_history"
    /\ started[last.conversation_id] = NoMetadata
    /\ last.status = NotFound
    /\ \E k \in Keys : store[k].messages # <<>>

\* C3: while no end, no delete_history and no overlapping invocation has
\* occurred, a session on which N invocations completed, and none is adding
\* its turns, has a history of exactly 2N entries: the input of the i-th
\* invocation as human turn 2i-1 and its output as ai turn 2i (and history
\* fails with session-not-found when N is 0).
C3_TwoTurnsPerInvocation ==
    \A k \in Keys :
        (~dirty /\ \A q \in Callers : ~(call[q].pc = "adding"
                                        /\ HandleKey(call[q].handle) = k)) =>
            LET N == Len(done[k])
                r == history(store, k[1], k[2])
            IN  IF N = 0 THEN r.status = NotFound
                ELSE /\ r.status = "ok"
                     /\ Len(r.messages) = 2 * N
                     /\ \A i \in 1..N :
                           /\ r.messages[2 * i - 1] =
                                 [role |-> "human", content |-> done[k][i][1]]
                           /\ r.messages[2 * i] =
                                 [role |-> "ai", content |-> done[k][i][2]]

C3_Witness ==
    /\ ~dirty
    /\ last.op = "history"
    /\ last.status = "ok"
    /\ Len(done[LastKey]) = 2
    /\ Len(store[LastKey].messages) = 4

\* C4 (as claimed): once end has succeeded on a session, get, history, end
\* and delete_history fail on it ever after.
C4_EndedForEver ==
    \A k \in Keys : ended[k] # "no" => AllNotFound(store, k[1], k[2])

\* C4 (amended): once end has succeeded on a session, get, history, end and
\* delete_history called after it fail on it with session-not-found for as
\* long as no pipeline invocation has added a turn to it since: none of
\* them gets past the test of the log it reads. An end that had read the
\* log before succeeds whatever was removed since, and leaves no item.
C4_EndedUntilTurnAdded ==
    /\ [](\A k \in Keys :
             ended[k] = "ended" => AllNotFound(store, k[1], k[2]))
    /\ [][\A t \in Threads :
             /\ (thread[t] = NoThread /\ thread'[t] # NoThread) =>
                    ended[HandleKey(thread'[t].hist)] # "ended"
             /\ (thread[t].op = "end" /\ thread'[t] = NoThread) =>
                    /\ last'.op = "end"
                    /\ last'.status = "ok"
                    /\ store'[HandleKey(thread[t].hist)] = NoItem]_vars

C4_Witness ==
    /\ last.op = "end"
    /\ last.status = NotFound
    /\ ended[LastKey] = "ended"

\* C5 (as claimed): on a session start has returned, delete_history with
\* an index at or beyond the length of the log fails with
\* index-out-of-range and leaves the log as long as it was, whatever the
\* length.
C5_BeyondLengthIsIndexError ==
    \A k \in Keys :
        started[k[2]] # NoMetadata =>
            LET n == Len(store[k].messages)
            IN  \A i \in n..(n + 1) :
                   LET r == delete_history_alone(store, k[1], k[2], i)
                   IN  /\ r.status = "IndexError"
                       /\ Len(r.store[k].messages) = n

\* C5 (amended): delete_history with an index at or beyond the length of
\* the log fails with index-out-of-range when the log it read at its start
\* was not empty, and with session-not-found when that log was empty;
\* either way the store is left as it was. The length the index is
\* compared with is the one the log has when delete is called.
C5_BeyondLengthNonEmpty ==
    /\ [](\A k \in Keys :
             LET n == Len(store[k].messages)
             IN  \A i \in n..(n + 1) :
                    LET r == delete_history_alone(store, k[1], k[2], i)
                    IN  /\ r.status = IF n = 0 THEN NotFound
                                      ELSE "IndexError"
                        /\ r.store = store)
    /\ [][\A t \in Threads :
             LET h == thread[t].hist
                 n == Len(store[HandleKey(h)].messages)
             IN  (/\ thread[t].op = "delete_history"
                  /\ thread'[t] = NoThread
                  /\ thread[t].num_entries >= n) =>
                     /\ h.messages # <<>>
                     /\ last'.op = "delete_history"
                     /\ last'.status = "IndexError"
                     /\ <<last'.user_id, last'.conversation_id>> = HandleKey(h)
                     /\ store' = store]_vars

\* delete_history failed on an index the log had when the call read it:
\* another thread's delete_history removed that turn in between.
C5_Witness ==
    /\ last.op = "delete_history"
    /\ last.status = "IndexError"
    /\ Emptied(LastKey)

\* C6: when the backend call of a pipeline invocation fails, the caller
\* gets the failure and the store is left exactly as it was.
C6_FailedCallAddsNothing ==
    [][\A p \in Callers :
          (call[p].pc = "running" /\ call'[p].pc = "idle") =>
              /\ store' = store
              /\ last'.op = "invoke"
              /\ last'.status = "BackendError"]_vars

C6_Witness ==
    /\ last.op = "invoke"
    /\ last.status = "BackendError"
    /\ store[LastKey].messages # <<>>

\* C7: start adds no turn: a session on which no pipeline was invoked yet
\* has no history (session-not-found, for every user), and a start leaves
\* the whole store, so the log of every existing session, as it was.
C7_StartAddsNoTurn ==
    /\ [](\A c \in ConvIds :
             (started[c] # NoMetadata /\ invoked[c] = 0) =>
                 \A u \in Users :
                    LET r == history(store, u, c)
                    IN  r.status = NotFound /\ r.error = c)
    /\ [][started' # started => store' = store]_vars

C7_Witness ==
    /\ last.op = "start"
    /\ last.status = "ok"
    /\ invoked[last.conversation_id] = 0
    /\ \E k \in Keys : Len(store[k].messages) = 2

\* C8: on a log that has position i, delete_history(i) succeeds and leaves
\* the turns before i followed by the turns after i, in their order; the
\* item's metadata and every other item are as they were.
\* The log is the one stored when delete is called: so does a
\* delete_history that other threads ran before since it read the log.
C8_DeleteRemovesThatTurn ==
    /\ [](\A k \in Keys :
             LET log == store[k].messages
             IN  \A i \in 0..(Len(log) - 1) :
                    LET r == delete_history_alone(store, k[1], k[2], i)
                    IN  /\ r.status = "ok"
                        /\ r.store[k].messages =
                              SubSeq(log, 1, i) \o SubSeq(log, i + 2, Len(log))
                        /\ r.store[k].metadata = store[k].metadata
                        /\ \A x \in Keys \ {k} : r.store[x] = store[x])
    /\ [][\A t \in Threads :
             LET k == HandleKey(thread[t].hist)
                 log == store[k].messages
                 i == thread[t].num_entries
             IN  (/\ thread[t].op = "delete_history"
                  /\ thread'[t] = NoThread
                  /\ i < Len(log)) =>
                     /\ last'.op = "delete_history"
                     /\ last'.status = "ok"
                     /\ store'[k].messages =
                           SubSeq(log, 1, i) \o SubSeq(log, i + 2, Len(log))
                     /\ store'[k].metadata = store[k].metadata
                     /\ \A x \in Keys \ {k} : store'[x] = store[x]]_vars

\* delete_history(0) has left only the ai turn, while another thread's
\* delete_history is still to delete from the log it read before.
C8_Witness ==
    /\ last.op = "delete_history"
    /\ last.status = "ok"
    /\ Len(store[LastKey].messages) = 1
    /\ store[LastKey].messages[1].type = "ai"
    /\ \E t \in Threads :
          /\ thread[t].op = "delete_history"
          /\ HandleKey(thread[t].hist) = LastKey
          /\ Len(thread[t].hist.messages) = 2

\* C9: the metadata stored for a session stays what it is in every step
\* but the end that removes the session.
C9_MetadataFixed ==
    [][\A k \in Keys :
          store[k].metadata # NoMetadata =>
              \/ store'[k].metadata = store[k].metadata
              \/ /\ last'.op = "end"
                 /\ last'.status = "ok"
                 /\ <<last'.user_id, last'.conversation_id>> = k
                 /\ store'[k] = NoItem]_vars

\* A pipeline invoked with another metadata has added a turn to a session.
C9_Witness ==
    \E p \in Callers :
        LET k == HandleKey(call[p].handle)
        IN  /\ call[p].pc = "adding"
            /\ Len(store[k].messages) = 3
            /\ call[p].handle.metadata # store[k].metadata

\* C10: whenever get succeeds, the backend, the observers, the config's
\* metadata and the metric's dimension are those of the metadata stored
\* under the (user_id, conversation_id) it was called with; and the config
\* a caller holds after a get carries that stored metadata.
C10_GetUsesStoredMetadata ==
    /\ \A u \in Users, c \in ConvIds :
          LET r == get(store, c, u, langfuse_host)
              m == store[<<u, c>>].metadata
              llm == [provider |-> m.provider, variant |-> m.variant]
          IN  r.status = "ok" =>
                 /\ m # NoMetadata
                 /\ r.chain.llm = llm
                 /\ r.config = generate_config(m, c, llm, langfuse_host)
                 /\ r.config.configurable.metadata = m
                 /\ r.metric = <<m>>
    /\ (last.op = "get" /\ last.status = "ok") =>
          \E p \in Callers :
             /\ held[p].configurable.conversation_id = last.conversation_id
             /\ held[p].configurable.metadata = store[LastKey].metadata
             /\ held[p].callbacks[1].llm.provider = store[LastKey].metadata.provider

\* get succeeded on a session whose stored metadata is not what start got.
C10_Witness ==
    /\ last.op = "get"
    /\ last.status = "ok"
    /\ store[LastKey].metadata # started[last.conversation_id]

\* C12 (as claimed): each of the four provider values gets a tracker of
\* its own in the config start or get returns, never the default one.
C12_FourSpecificTrackers ==
    \A p \in Callers :
        held[p] # NoConfig =>
            held[p].callbacks[2].cls # "BlockedContentTracker"

\* C12 (amended): the config start or get returns carries the Azure, the
\* Vertex or the Bedrock tracker for these three providers and the default
\* tracker for every other provider value, built on the llm of the config's
\* metadata; start raises nothing but the KeyError of an unknown prompt id.
C12_ThreeSpecificTrackers ==
    /\ \A p \in Callers :
          held[p] # NoConfig =>
              LET m == held[p].configurable.metadata
                  t == held[p].callbacks[2]
              IN  /\ t.cls = CASE m.provider = "AZURE" -> "AzureBlockedContentTracker"
                               [] m.provider = "VERTEX" -> "VertexBlockedContentTracker"
                               [] m.provider = "BEDROCK" -> "BedrockBlockedContentTracker"
                               [] OTHER -> "BlockedContentTracker"
                  /\ t.llm = [provider |-> m.provider, variant |-> m.variant]
    /\ last.op = "start" =>
          \/ last.status = "ok"
          \/ last.status = "KeyError" /\ last.error \notin prompts

\* get returned a config for a session of a provider with no tracker of
\* its own.
C12_Witness ==
    /\ last.op = "get"
    /\ last.status = "ok"
    /\ held["p1"].configurable.metadata.provider = "OTHER"
    /\ held["p1"].callbacks[2].cls = "BlockedContentTracker"

\* C13 (as claimed): every start succeeds and returns a session id.
C13_StartAlwaysSucceeds ==
    last.op = "start" => (last.status = "ok" /\ last.conversation_id \in ConvIds)

\* C13 (amended): for every metadata, start succeeds when the prompt id is
\* "default" or the id of a known template, returning a config, the fresh
\* session id and a pipeline for that prompt id; on an unknown prompt id it
\* raises KeyError, returns nothing and leaves the store as it was.
C13_StartSucceedsOnKnownPrompt ==
    /\ \A meta \in ConversationMetadata, prompt_id \in PromptIds :
          started[NextId] = NoMetadata =>
              LET r == start(store, meta, prompt_id, NextId, langfuse_host)
              IN  IF prompt_id = "default" \/ prompt_id \in prompts
                  THEN /\ r.status = "ok"
                       /\ r.conversation_id = NextId
                       /\ r.config.configurable.conversation_id = NextId
                       /\ r.config.configurable.metadata = meta
                       /\ r.chain.prompt_id = prompt_id
                       /\ r.chain.llm = [provider |-> meta.provider,
                                         variant |-> meta.variant]
                  ELSE /\ r.status = "KeyError"
                       /\ r.error = prompt_id
                       /\ r.config = NoConfig
                       /\ r.store = store
    /\ last.op = "start" =>
          \/ last.status = "ok" /\ started[last.conversation_id] # NoMetadata
          \/ /\ last.status = "KeyError"
             /\ last.error \notin prompts \cup {"default"}
             /\ last.conversation_id = ""

\* A start with an unknown prompt id failed after another had succeeded.
C13_Witness ==
    /\ last.op = "start"
    /\ last.status = "KeyError"
    /\ started["c1"] # NoMetadata
    /\ started["c2"] = NoMetadata

\* The shape of a config: the metrics counter, then one tracker, then the
\* trace handler stamped with the ids exactly when traced.
ConfigShape(config, traced) ==
    LET cb == config.callbacks
    IN  /\ Len(cb) = IF traced THEN 3 ELSE 2
        /\ cb[1].cls = "LLMMetricsCounter"
        /\ cb[2].cls \in {"AzureBlockedContentTracker",
                          "VertexBlockedContentTracker",
                          "BedrockBlockedContentTracker",
                          "BlockedContentTracker"}
        /\ traced =>
              /\ cb[3].cls = "CallbackHandler"
              /\ cb[3].session_id = config.configurable.conversation_id
              /\ cb[3].user_id = config.configurable.metadata.business_user

\* C16: every config start or get has returned holds the metrics counter,
\* then one safety tracker, and at most a trace handler after them, stamped
\* with the session id and the business user; and the config a start or a
\* get returns holds the trace handler exactly when LANGFUSE_HOST is set
\* at that call.
C16_ConfigShape ==
    /\ [](\A p \in Callers :
             held[p] # NoConfig =>
                 ConfigShape(held[p], Len(held[p].callbacks) > 2))
    /\ [][(/\ call' = call
           /\ langfuse_host' = langfuse_host
           /\ last'.op \in {"start", "get"}
           /\ last'.status = "ok")
          => \E p \in Callers :
                /\ held'[p].configurable.conversation_id = last'.conversation_id
                /\ ConfigShape(held'[p], langfuse_host)]_vars

\* get returned a traced config after the environment was set, for a
\* session started untraced.
C16_Witness ==
    /\ last.op = "get"
    /\ last.status = "ok"
    /\ langfuse_host
    /\ Len(held["p1"].callbacks) = 3
    /\ held["p1"].callbacks[3].session_id = last.conversation_id

\* C17 (as claimed): every start and every successful get increments the
\* request counter once, with the session's metadata; a failing get,
\* history, end and delete_history do not increment it.
C17_EveryStartCounts ==
    /\ last.op = "start" => Len(last.metric) = 1
    /\ (last.op = "get" /\ last.status = "ok") =>
          last.metric = <<store[LastKey].metadata>>
    /\ (last.op = "get" /\ last.status # "ok") => last.metric = <<>>
    /\ last.op \in {"history", "end", "delete_history"} => last.metric = <<>>

\* C17 (amended): every start that returns and every successful get
\* increments the request counter once, with the session's metadata (the
\* metadata given to start, the stored metadata for get); a start that
\* raises on an unknown prompt id, a failing get, history, end and
\* delete_history do not increment it.
C17_ReturningStartCounts ==
    /\ (last.op = "start" /\ last.status = "ok") =>
          last.metric = <<started[last.conversation_id]>>
    /\ (last.op = "start" /\ last.status # "ok") => last.metric = <<>>
    /\ (last.op = "get" /\ last.status = "ok") =>
          last.metric = <<store[LastKey].metadata>>
    /\ (last.op = "get" /\ last.status # "ok") => last.metric = <<>>
    /\ last.op \in {"history", "end", "delete_history"} => last.metric = <<>>

\* get failed on a session start had returned, and counted nothing.
C17_Witness ==
    /\ last.op = "get"
    /\ last.status = NotFound
    /\ started[last.conversation_id] # NoMetadata
    /\ last.metric = <<>>

\* C14 (as claimed): on a session whose turns were all deleted one by one,
\* get, history, end and delete_history fail with session-not-found as
\* they do on an id never started.
C14_EmptiedIsAbsent ==
    \A k \in Keys : Emptied(k) => AllNotFound(store, k[1], k[2])

\* C14 (amended): on a session whose turns were all deleted one by one,
\* history, end and delete_history fail with session-not-found as they do
\* on an id never started, while get still succeeds, with the metadata
\* that is still stored.
C14_EmptiedStillResumable ==
    \A k \in Keys :
        Emptied(k) =>
            /\ LET r == history(store, k[1], k[2])
               IN  r.status = NotFound /\ r.error = k[2]
            /\ LET r == end_alone(store, k[1], k[2])
               IN  r.status = NotFound /\ r.error = k[2]
            /\ \A i \in 0..MaxIndex :
                  LET r == delete_history_alone(store, k[1], k[2], i)
                  IN  r.status = NotFound /\ r.error = k[2]
            /\ LET r == get(store, k[2], k[1], langfuse_host)
               IN  /\ r.status = "ok"
                   /\ r.config.configurable.metadata = store[k].metadata

C14_Witness ==
    /\ last.op = "delete_history"
    /\ last.status = "ok"
    /\ Emptied(LastKey)

\* C18 (as claimed): whenever get(conversation_id, user_id) succeeds, the
\* pipeline invoked with the config it returns resolves the log of
\* (user_id, conversation_id), the one history reads; so does the config a
\* caller holds after a successful get.
C18_ResumedTurnsLandInSameLog ==
    /\ \A u \in Users, c \in ConvIds :
          LET r == get(store, c, u, langfuse_host)
          IN  r.status = "ok" =>
                 HandleKey(session_history(store, r.config.configurable))
                    = <<u, c>>
    /\ (last.op = "get" /\ last.status = "ok") =>
          \E p \in Callers :
             /\ held[p].configurable.conversation_id = last.conversation_id
             /\ held[p].configurable.user_id = last.user_id

\* C19: get and history leave the store as it was, and so do end and
\* delete_history when they fail with session-not-found.
C19_ReadsAndFailuresChangeNothing ==
    /\ [](\A u \in Users, c \in ConvIds :
             LET hist == get_message_history(store, u, c, NoMetadata)
             IN  /\ LET r == end(hist, store, c)
                    IN  r.status = NotFound => r.store = store
                 /\ \A i \in 0..(Len(hist.messages) + 1) :
                       LET r == delete_history(hist, store, c, i)
                       IN  r.status = NotFound => r.store = store)
    /\ [][(/\ call' = call
           /\ \/ last'.op \in {"get", "history"}
              \/ /\ last'.op \in {"end", "delete_history"}
                 /\ last'.status = NotFound)
          => store' = store]_vars

\* end failed on a session whose item is stored, and left it stored.
C19_Witness ==
    /\ last.op = "end"
    /\ last.status = NotFound
    /\ Emptied(LastKey)

\* C11: in every step of every interleaving the only item of the store
\* that changes is the one the operation is addressed to: the key of the
\* handle of the invocation that moves, else the key end or delete_history
\* was called with; and an invocation resolves the key of the config it
\* is given.
C11_OtherSessionsUntouched ==
    [][/\ \A k \in Keys :
             store'[k] # store[k] =>
                 IF call' # call
                 THEN \E p \in Callers :
                         call'[p] # call[p] /\ HandleKey(call[p].handle) = k
                 ELSE /\ last'.op \in {"end", "delete_history"}
                      /\ <<last'.user_id, last'.conversation_id>> = k
       /\ \A p \in Callers :
             (call[p].pc = "idle" /\ call'[p].pc = "running") =>
                 HandleKey(call'[p].handle) =
                    <<held[p].configurable.user_id,
                      held[p].configurable.conversation_id>>]_vars

\* A session was ended while an invocation on another session, which has
\* turns, was adding its own.
C11_Witness ==
    /\ last.op = "end"
    /\ last.status = "ok"
    /\ \E p \in Callers :
          /\ call[p].pc = "adding"
          /\ HandleKey(call[p].handle)[2] # last.conversation_id
          /\ store[HandleKey(call[p].handle)].messages # <<>>

IsPrefix(a, b) == Len(a) <= Len(b) /\ SubSeq(b, 1, Len(a)) = a

\* The number of turns of a type in a log.
Count(log, type) == Cardinality({i \in 1..Len(log) : log[i].type = type})

\* The inputs in a log are those of distinct invocations, and up to any
\* point the log has no more responses than inputs.
WellPaired(log) ==
    /\ \A i, j \in 1..Len(log) :
          (i < j /\ log[i].type = "human" /\ log[j].type = "human")
             => log[i].content # log[j].content
    /\ \A n \in 0..Len(log) :
          Count(SubSeq(log, 1, n), "ai") <= Count(SubSeq(log, 1, n), "human")

\* No log lacks a turn of an invocation: a log no invocation is adding to
\* has as many responses as inputs, and the logs hold the input of every
\* invocation that returned.
NoneLost ==
    /\ \A k \in Keys :
          (\A p \in Callers : ~(call[p].pc = "adding"
                                /\ HandleKey(call[p].handle) = k))
             => Count(store[k].messages, "ai") = Count(store[k].messages, "human")
    /\ Sum([c \in ConvIds |->
              Sum([u \in Users |->
                     Count(store[<<u, c>>].messages, "human")], Users)],
           ConvIds)
       = Sum(invoked, ConvIds)
            - Cardinality({p \in Callers : call[p].pc = "running"})

\* The invocation of p completes in this step with its response as the
\* last turn of the log and its input an earlier one.
CompletesInLog(p) ==
    (call[p].pc = "adding" /\ call'[p].pc = "idle") =>
        LET log == store'[HandleKey(call[p].handle)].messages
        IN  /\ log[Len(log)] = AIMessage(call[p].output)
            /\ \E i \in 1..(Len(log) - 1) :
                  log[i] = HumanMessage(call[p].input)

====
